---- MODULE Spec2Model ----
(***************************************************************************)
(* Model of the IDS API guide, Part 1 (Python notebook                     *)
(* api-guide/ids-api-guide-python-1.ipynb): the code cells that query the  *)
(* World Bank Data API for sources, indicators, debtor locations and       *)
(* creditor locations, parse the JSON envelope and look up one indicator.  *)
(*                                                                         *)
(* The notebook is run top to bottom; a cell that raises stops the run     *)
(* (the recorded outputs of the Part 2 notebook show exactly that: the     *)
(* cell that raised has an error output and no later cell was executed).   *)
(* One action models one code cell, from its first statement to its last   *)
(* or to the statement that raises.                                        *)
(*                                                                         *)
(* The World Bank server is the environment.  Its catalogs are fixed the   *)
(* first time an endpoint is requested and never change afterwards.  A     *)
(* request returns page 1 of the catalog: the first per_page records in    *)
(* server order, with the catalog's length reported as "total".            *)
(***************************************************************************)
EXTENDS Integers, Sequences, FiniteSets, TLC

(***************************************************************************)
(* Bounds of the model.                                                    *)
(***************************************************************************)
\* Leading positions of the indicator catalog that hold arbitrary records.
MaxHead == 2
\* Leading positions of a location catalog that hold arbitrary entries.
MaxLocHead == 1
\* Catalog sizes are taken within Slack of each per_page value.
Slack == 1

\* How many times the reader runs In [5] again before going on.
MaxRepeat == 1

\* Part 2: the amounts lie within MaxBillions billions of zero, a data frame
\* has at most MaxRows rows, a region name is made of at most MaxPieces
\* pieces.
MaxBillions == 1
MaxRows == 2
MaxPieces == 3

(***************************************************************************)
(* Constants of the notebook.                                              *)
(***************************************************************************)
SourcesPerPage == 100
DefaultPerPage == 50
IndicatorsPerPage == 500
LocationsPerPage == 300
HeadRows == 10
ObservedTotal == 569
IndicatorCode == "DT.DOD.DLXF.CD"
IDSName == "International Debt Statistics"

Min(a, b) == IF a < b THEN a ELSE b

(***************************************************************************)
(* Python values.  A name of the notebook is unbound until a cell assigns  *)
(* it.  An exception is a record of its type and its argument.             *)
(***************************************************************************)
Unbound == [bound |-> FALSE]
Bind(v) == [bound |-> TRUE, val |-> v]

NoError == [type |-> "none", arg |-> ""]
Raise(type, arg) == [type |-> type, arg |-> arg]

Ok(v) == [ok |-> TRUE, val |-> v]
Fail(e) == [ok |-> FALSE, err |-> e]

(***************************************************************************)
(* Raw records of the server.  A raw record is a JSON object: a function   *)
(* from the keys it has to strings.  A key the object lacks is not in its  *)
(* domain.                                                                 *)
(***************************************************************************)
Filler(i) ==
    [id |-> ToString(i), name |-> "Indicator", sourceNote |-> "Note"]

Target ==
    [id |-> IndicatorCode,
     name |-> "External debt stocks, long-term (DOD, current US$)",
     sourceNote |-> "Long-term debt is debt that has an original or extended maturity of more than one year."]

FlatVariants ==
    { Target,
      [id |-> IndicatorCode, name |-> "Duplicate", sourceNote |-> "Second note"],
      [id |-> "dt.dod.dlxf.cd", name |-> "Lower case", sourceNote |-> "Lower-case note"],
      [id |-> "", name |-> "", sourceNote |-> ""],
      [id |-> IndicatorCode, name |-> "No note"],
      [name |-> "No id", sourceNote |-> "Note"],
      [id |-> "NO.NAME", sourceNote |-> "Note"] }

LocFiller(i) == [id |-> ToString(i), value |-> "Location"]

LocVariants ==
    { [id |-> "AFG", value |-> "Afghanistan"],
      [id |-> "", value |-> ""],
      [value |-> "No id"],
      [id |-> "NOV"] }

\* Sequences over S of length at most n.
SeqUpTo(S, n) == UNION { [1..k -> S] : k \in 0..n }

\* A catalog of T records: head first, filler records after it, and the
\* record last in the final position when one is given.
Catalog(head, T, last) ==
    [i \in 1..T |->
        IF i <= Len(head) THEN head[i]
        ELSE IF i = T /\ last # <<>> THEN last[1]
        ELSE Filler(i)]

\* A location catalog of T entries: head first, filler entries after it.
LocCatalog(head, T) ==
    [i \in 1..T |-> IF i <= Len(head) THEN head[i] ELSE LocFiller(i)]

Around(P) == { t \in (P - Slack)..(P + Slack) : t >= 0 }

\* Catalog sizes at which a page of the notebook's requests fills up.
IndicatorTotals ==
    Around(DefaultPerPage) \cup Around(IndicatorsPerPage) \cup {ObservedTotal}

LocationTotals == Around(LocationsPerPage)

\* The catalogs the server may hold: short ones of arbitrary records, and
\* long ones of filler records, with or without the wanted indicator in the
\* last position (the locations: with Afghanistan in the first).
IndicatorCatalogs ==
    { Catalog(h, T, <<>>) :
        h \in SeqUpTo(FlatVariants, MaxHead), T \in 0..MaxHead }
    \cup { Catalog(<<>>, T, last) :
        T \in IndicatorTotals, last \in {<<>>, <<Target>>} }

LocationCatalogs ==
    { LocCatalog(h, T) :
        h \in SeqUpTo(LocVariants, MaxLocHead), T \in 0..MaxLocHead }
    \cup { LocCatalog(h, T) :
        h \in {<<>>, <<[id |-> "AFG", value |-> "Afghanistan"]>>},
        T \in LocationTotals }

\* The creditor catalogs: the same shapes, fewer of them.
CreditorCatalogs ==
    { <<>>,
      <<[id |-> "001", value |-> "Austria"]>>,
      <<[id |-> "001", value |-> "Austria"], [id |-> "002"]>>,
      <<[value |-> "Austria"]>>,
      LocCatalog(<<[id |-> "001", value |-> "Austria"]>>, LocationsPerPage + 1) }

SourceCatalogs ==
    { <<[id |-> "2", name |-> "World Development Indicators"],
        [id |-> "6", name |-> IDSName]>>,
      <<[id |-> "6", name |-> IDSName], [id |-> "81", name |-> IDSName]>>,
      <<[id |-> "2", name |-> "World Development Indicators"], [name |-> IDSName]>>,
      <<[id |-> "6"]>> }

(***************************************************************************)
(* The server.  A request is the resource of its URL and the query         *)
(* parameters the URL carries; a parameter the URL omits is not in the     *)
(* domain of params.                                                       *)
(***************************************************************************)
Request(resource, params) == [resource |-> resource, params |-> params]

PerPageOf(req) ==
    IF "per_page" \in DOMAIN req.params THEN req.params.per_page
    ELSE DefaultPerPage

PageOf(req) ==
    IF "page" \in DOMAIN req.params THEN req.params.page ELSE 1

\* The records of the requested page, in server order.
ServerPage(catalog, req) ==
    LET P == PerPageOf(req)
        first == (PageOf(req) - 1) * P + 1
        last == Min(PageOf(req) * P, Len(catalog))
    IN  SubSeq(catalog, first, last)

Paging(catalog, req) ==
    [page |-> PageOf(req),
     pages |-> (Len(catalog) + PerPageOf(req) - 1) \div PerPageOf(req),
     per_page |-> PerPageOf(req),
     total |-> Len(catalog)]

\* The decoded body of a response.  "list" is the two-element JSON array
\* [paging, records]; "dict" is the JSON object that nests the records
\* under source[0].concept[0].variable; the API's error message is a
\* one-element array; "text" is a body that is not JSON.
Body(kind, catalog, req) ==
    CASE kind = "flat" ->
            [t |-> "list", v |-> <<Paging(catalog, req), ServerPage(catalog, req)>>]
      [] kind = "nested" ->
            [t |-> "dict",
             v |-> [page |-> PageOf(req),
                    pages |-> Paging(catalog, req).pages,
                    per_page |-> PerPageOf(req),
                    total |-> Len(catalog),
                    source |-> << [id |-> "6", name |-> IDSName,
                                   concept |-> << [id |-> "Country",
                                                   variable |-> ServerPage(catalog, req)] >>] >>]]
      [] kind = "message" ->
            [t |-> "list", v |-> << [message |-> "Invalid value"] >>]
      [] kind = "nosource" ->
            [t |-> "dict", v |-> [message |-> "Invalid value"]]
      [] OTHER -> [t |-> "text", v |-> <<>>]

\* What one GET can come back with: a body of one of the kinds above, or a
\* transport failure.
Outcomes == {"flat", "nested", "message", "nosource", "text", "network"}

(***************************************************************************)
(* Python operations on a decoded body.                                    *)
(***************************************************************************)
\* requests.get(url): the body, or ConnectionError.
Get(outcome, catalog, req) ==
    IF outcome = "network" THEN Fail(Raise("ConnectionError", req.resource))
    ELSE Ok(Body(outcome, catalog, req))

\* response.json()
Json(body) ==
    IF body.t = "text" THEN Fail(Raise("JSONDecodeError", "Expecting value"))
    ELSE Ok(body)

\* js[n] for a Python index n (0-based).
PyIndex(js, n) ==
    IF js.t = "dict" THEN Fail(Raise("KeyError", ToString(n)))
    ELSE IF n + 1 > Len(js.v) THEN Fail(Raise("IndexError", "list index out of range"))
    ELSE Ok(js.v[n + 1])

\* js[key] for a string key.
PyKey(js, key) ==
    IF js.t = "list" THEN Fail(Raise("TypeError", "list indices must be integers or slices, not str"))
    ELSE IF key \notin DOMAIN js.v THEN Fail(Raise("KeyError", key))
    ELSE Ok(js.v[key])

\* Mutant: the number of records of the page, len(js[1]), for the total.
PagingTotal_PageLength(js) ==
    LET recs == PyIndex(js, 1) IN
    IF ~recs.ok THEN recs ELSE Ok(Len(recs.val))

\* Mutant: a body without a total at js[0] counts as a total of 0.
PagingTotal_DefaultZero(js) ==
    LET paging == PyIndex(js, 0) IN
    IF ~paging.ok THEN Ok(0)
    ELSE IF "total" \notin DOMAIN paging.val THEN Ok(0)
    ELSE Ok(paging.val.total)

\* js[0]["total"]
PagingTotal(js) ==
    LET paging == PyIndex(js, 0) IN
    IF ~paging.ok THEN paging
    ELSE IF "total" \notin DOMAIN paging.val THEN Fail(Raise("KeyError", "total"))
    ELSE Ok(paging.val.total)

\* js[1]: the traversal of the FlatArray shape.
FlatRecords(js) == PyIndex(js, 1)

\* Mutant: a body of another shape read as one that holds no entries.
NestedVariable_Lenient(js) ==
    LET source == PyKey(js, "source") IN
    IF ~source.ok THEN Ok(<<>>)
    ELSE Ok(source.val[1].concept[1].variable)

\* js["source"][0]["concept"][0]["variable"]: the traversal of the
\* NestedVariable shape.
NestedVariable(js) ==
    LET source == PyKey(js, "source") IN
    IF ~source.ok THEN source
    ELSE Ok(source.val[1].concept[1].variable)

\* The least element of a set of positions, 0 when there is none.
FirstOf(S) == IF S = {} THEN 0 ELSE CHOOSE i \in S : \A j \in S : i <= j

\* The first key of keys (in order) that record r lacks, "" when it has all.
MissingKey(r, keys) ==
    LET miss == { j \in 1..Len(keys) : keys[j] \notin DOMAIN r } IN
    IF miss = {} THEN "" ELSE keys[FirstOf(miss)]

(***************************************************************************)
(* State.  server, requestLog and out are the environment (the catalogs    *)
(* the server holds, the GETs it has received, the lines printed); pc and  *)
(* err are the position of the run; the rest are the names the notebook    *)
(* binds.                                                                  *)
(***************************************************************************)
VARIABLES server, requestLog, out, pc, err,
          sources, sourcesJSON,
          indicators, indicatorsJSON, IDSindicators, indicator,
          dlocations, dlocationsJSON, clocations, clocationsJSON,
          listLen, df, code, name, dlocationsList, clocationsList

envVars == <<server, requestLog, out>>
sourceVars == <<sources, sourcesJSON>>
indicatorVars == <<indicators, indicatorsJSON, IDSindicators, indicator>>
debtorVars == <<dlocations, dlocationsJSON, dlocationsList>>
creditorVars == <<clocations, clocationsJSON, clocationsList>>
frameVars == <<listLen, df, code, name>>
part1Vars == <<envVars, pc, err, sourceVars, indicatorVars, debtorVars,
               creditorVars, frameVars>>

\* The kernel of the Part 2 notebook: the position of its run, the lines it
\* printed, the installed wbdata and the names its cells bind.
VARIABLES pc2, err2, out2, wbdata,
          indicatorSelection, locationSelection, timeSelection, IDS,
          EXD, EXDreshaped, EXDclean, source, chart

frames2 == <<EXD, EXDreshaped, EXDclean, source, chart>>
part2Vars == <<pc2, err2, out2, wbdata, indicatorSelection, locationSelection,
               timeSelection, IDS, frames2>>
vars == <<part1Vars, part2Vars>>

\* A Response object, told by the kind of body it carries.
Response(kind) == [t |-> "Response", v |-> kind]
PyList(items) == [t |-> "list", v |-> items]

Part1Start ==
    /\ server = [sources |-> Unbound, indicator |-> Unbound,
                 country |-> Unbound, counterpart |-> Unbound]
    /\ requestLog = <<>>
    /\ out = <<>>
    /\ pc = "In1"
    /\ err = NoError
    /\ sources = Unbound /\ sourcesJSON = Unbound
    /\ indicators = Unbound /\ indicatorsJSON = Unbound
    /\ IDSindicators = Unbound /\ indicator = Unbound
    /\ dlocations = Unbound /\ dlocationsJSON = Unbound
    /\ clocations = Unbound /\ clocationsJSON = Unbound
    /\ listLen = Unbound /\ df = Unbound /\ code = Unbound /\ name = Unbound
    /\ dlocationsList = Unbound /\ clocationsList = Unbound

\* Part 2 before its first cell has run.
Part2Start ==
    /\ pc2 = "imports" /\ err2 = NoError /\ out2 = <<>>
    /\ wbdata = Unbound
    /\ indicatorSelection = Unbound /\ locationSelection = Unbound
    /\ timeSelection = Unbound /\ IDS = Unbound
    /\ EXD = Unbound /\ EXDreshaped = Unbound /\ EXDclean = Unbound
    /\ source = Unbound /\ chart = Unbound

Init == Part1Start /\ Part2Start

\* The run goes on to cell next when the cell raised nothing and stops at
\* the cell when it raised e.
Finish(e, next) ==
    /\ err' = e
    /\ pc' = IF e = NoError THEN next ELSE pc

\* The lines a cell printed, appended to the output.
Printed(cell, lines) ==
    out \o [j \in 1..Len(lines) |-> [cell |-> cell, line |-> lines[j]]]

\* The catalog of an endpoint: the one the server holds, or any catalog of
\* cats when no response has shown the endpoint's catalog yet.
CatalogsOf(endpoint, cats) ==
    IF server[endpoint].bound THEN {server[endpoint].val} ELSE cats

\* The server after answering: a response that carries records shows the
\* catalog, which stays the endpoint's catalog from then on.
Served(endpoint, outcome, catalog) ==
    IF outcome \in {"flat", "nested"}
    THEN [server EXCEPT ![endpoint] = Bind(catalog)]
    ELSE server

(***************************************************************************)
(* In [1]: import requests, json, pandas.                                  *)
(***************************************************************************)
ImportPackages ==
    /\ pc = "In1" /\ err = NoError
    /\ pc' = "In2"
    /\ UNCHANGED <<part2Vars, envVars, err, sourceVars, indicatorVars, debtorVars,
                   creditorVars, frameVars>>

(***************************************************************************)
(* In [2]: get all sources and print the id of the source whose name is    *)
(* "International Debt Statistics".                                        *)
(***************************************************************************)
SourcesRequest ==
    Request("sources", [per_page |-> SourcesPerPage, format |-> "json"])

\* for i in sourcesJSON[1]: if i["name"] == ...: print(... + i["id"])
SourcesLoop(recs) ==
    LET bad == { i \in 1..Len(recs) :
                    \/ "name" \notin DOMAIN recs[i]
                    \/ recs[i].name = IDSName /\ "id" \notin DOMAIN recs[i] }
        k == FirstOf(bad)
        seen == IF k = 0 THEN recs ELSE SubSeq(recs, 1, k - 1)
        hits == SelectSeq(seen, LAMBDA r : r.name = IDSName)
    IN  [lines |-> [j \in 1..Len(hits) |->
                      <<"The source ID for International Debt Statistics is ", hits[j].id>>],
         err |-> IF k = 0 THEN NoError
                 ELSE Raise("KeyError", MissingKey(recs[k], <<"name", "id">>))]

GetSourcesRun(outcome, catalog) ==
    LET none == [requests |-> <<SourcesRequest>>,
                 sources |-> sources, sourcesJSON |-> sourcesJSON,
                 lines |-> <<>>, err |-> NoError]
        resp == Get(outcome, catalog, SourcesRequest)
    IN  IF ~resp.ok THEN [none EXCEPT !.err = resp.err]
        ELSE
        LET got == [none EXCEPT !.sources = Bind(Response(outcome))]
            js == Json(resp.val)
        IN  IF ~js.ok THEN [got EXCEPT !.err = js.err]
            ELSE
            LET parsed == [got EXCEPT !.sourcesJSON = Bind(js.val)]
                recs == FlatRecords(js.val)
            IN  IF ~recs.ok THEN [parsed EXCEPT !.err = recs.err]
                ELSE
                LET loop == SourcesLoop(recs.val)
                IN  [parsed EXCEPT !.lines = loop.lines, !.err = loop.err]

GetSources ==
    /\ pc = "In2" /\ err = NoError
    /\ \E outcome \in Outcomes, catalog \in CatalogsOf("sources", SourceCatalogs) :
        LET run == GetSourcesRun(outcome, catalog) IN
        /\ server' = Served("sources", outcome, catalog)
        /\ requestLog' = requestLog \o run.requests
        /\ sources' = run.sources
        /\ sourcesJSON' = run.sourcesJSON
        /\ out' = Printed(2, run.lines)
        /\ Finish(run.err, "In3")
    /\ UNCHANGED <<part2Vars, indicatorVars, debtorVars, creditorVars, frameVars>>

(***************************************************************************)
(* In [3]: request the indicators of source 6 with the default page size.  *)
(***************************************************************************)
IndicatorsRequest ==
    Request("indicator", [format |-> "json", source |-> 6])

\* Mutant: a second GET, for page 2, when the first page reports more pages.
RequestIndicatorsRun_NextPage(outcome, catalog, req) ==
    LET none == [requests |-> <<req>>,
                 indicators |-> indicators, indicatorsJSON |-> indicatorsJSON,
                 err |-> NoError]
        resp == Get(outcome, catalog, req)
    IN  IF ~resp.ok THEN [none EXCEPT !.err = resp.err]
        ELSE
        LET got == [none EXCEPT !.indicators = Bind(Response(outcome))]
            js == Json(resp.val)
        IN  IF ~js.ok THEN [got EXCEPT !.err = js.err]
            ELSE IF js.val.t = "list" /\ Len(js.val.v) = 2 /\ js.val.v[1].pages > 1
            THEN [got EXCEPT !.indicatorsJSON = Bind(js.val),
                             !.requests = <<req, Request(req.resource,
                                 [format |-> "json", source |-> 6,
                                  per_page |-> PerPageOf(req), page |-> 2])>>]
            ELSE [got EXCEPT !.indicatorsJSON = Bind(js.val)]

\* Mutant: a GET that failed in transport is sent a second time.
RequestIndicatorsRun_Retry(outcome, catalog, req) ==
    LET none == [requests |-> <<req>>,
                 indicators |-> indicators, indicatorsJSON |-> indicatorsJSON,
                 err |-> NoError]
        resp == Get(outcome, catalog, req)
    IN  IF ~resp.ok THEN [none EXCEPT !.err = resp.err, !.requests = <<req, req>>]
        ELSE
        LET got == [none EXCEPT !.indicators = Bind(Response(outcome))]
            js == Json(resp.val)
        IN  IF ~js.ok THEN [got EXCEPT !.err = js.err]
            ELSE [got EXCEPT !.indicatorsJSON = Bind(js.val)]

RequestIndicatorsRun(outcome, catalog, req) ==
    LET none == [requests |-> <<req>>,
                 indicators |-> indicators, indicatorsJSON |-> indicatorsJSON,
                 err |-> NoError]
        resp == Get(outcome, catalog, req)
    IN  IF ~resp.ok THEN [none EXCEPT !.err = resp.err]
        ELSE
        LET got == [none EXCEPT !.indicators = Bind(Response(outcome))]
            js == Json(resp.val)
        IN  IF ~js.ok THEN [got EXCEPT !.err = js.err]
            ELSE [got EXCEPT !.indicatorsJSON = Bind(js.val)]

RequestIndicators ==
    /\ pc = "In3" /\ err = NoError
    /\ \E outcome \in Outcomes, catalog \in CatalogsOf("indicator", IndicatorCatalogs) :
        LET run == RequestIndicatorsRun(outcome, catalog, IndicatorsRequest) IN
        /\ server' = Served("indicator", outcome, catalog)
        /\ requestLog' = requestLog \o run.requests
        /\ indicators' = run.indicators
        /\ indicatorsJSON' = run.indicatorsJSON
        /\ Finish(run.err, "In4")
    /\ UNCHANGED <<part2Vars, out, sourceVars, IDSindicators, indicator, debtorVars,
                   creditorVars, frameVars>>

(***************************************************************************)
(* In [4]: print the total number of indicators.                           *)
(***************************************************************************)
PrintTotalRun(js) ==
    LET total == PagingTotal(js) IN
    IF ~total.ok THEN [lines |-> <<>>, err |-> total.err]
    ELSE [lines |-> << <<"There are ", ToString(total.val), " IDS indicators">> >>,
          err |-> NoError]

PrintTotal ==
    /\ pc = "In4" /\ err = NoError
    /\ LET run == PrintTotalRun(indicatorsJSON.val) IN
        /\ out' = Printed(4, run.lines)
        /\ Finish(run.err, "In5")
    /\ UNCHANGED <<part2Vars, server, requestLog, sourceVars, indicatorVars, debtorVars,
                   creditorVars, frameVars>>

(***************************************************************************)
(* In [5]: get all indicators with per_page=500 and walk through the ids   *)
(* and names.                                                              *)
(***************************************************************************)
\* Mutant: the request of In [3] again, the per_page parameter forgotten.
AllIndicatorsRequest_NoPerPage ==
    Request("indicator", [format |-> "json", source |-> 6])

\* Mutant: a page size that holds the whole catalog.
AllIndicatorsRequest_WholeCatalog ==
    Request("indicator",
            [format |-> "json", source |-> 6, per_page |-> 2 * IndicatorsPerPage])

AllIndicatorsRequest ==
    Request("indicator",
            [format |-> "json", source |-> 6, per_page |-> IndicatorsPerPage])

\* for i in indicatorsJSON[1]: IDSindicators = (i["id"], i["name"])
IndicatorsLoop(recs) ==
    LET bad == { i \in 1..Len(recs) : MissingKey(recs[i], <<"id", "name">>) # "" }
        k == FirstOf(bad)
        n == IF k = 0 THEN Len(recs) ELSE k - 1
    IN  [IDSindicators |-> IF n = 0 THEN IDSindicators
                           ELSE Bind(<<recs[n].id, recs[n].name>>),
         err |-> IF k = 0 THEN NoError
                 ELSE Raise("KeyError", MissingKey(recs[k], <<"id", "name">>))]

\* Mutant: the records of a call are added to the records the name already
\* holds, so that an earlier call shows in the result of a later one.
GetAllIndicatorsRun_Accumulate(outcome, catalog) ==
    LET fetch == RequestIndicatorsRun(outcome, catalog, AllIndicatorsRequest)
        both == IF fetch.err = NoError /\ fetch.indicatorsJSON.val.t = "list"
                   /\ Len(fetch.indicatorsJSON.val.v) = 2
                   /\ indicatorsJSON.bound /\ indicatorsJSON.val.t = "list"
                   /\ Len(indicatorsJSON.val.v) = 2
                THEN Bind(PyList(<<fetch.indicatorsJSON.val.v[1],
                                   indicatorsJSON.val.v[2]
                                       \o fetch.indicatorsJSON.val.v[2]>>))
                ELSE fetch.indicatorsJSON
    IN  [requests |-> fetch.requests,
         indicators |-> fetch.indicators,
         indicatorsJSON |-> both,
         IDSindicators |-> IDSindicators, err |-> fetch.err]

GetAllIndicatorsRun(outcome, catalog) ==
    LET fetch == RequestIndicatorsRun(outcome, catalog, AllIndicatorsRequest)
        none == [requests |-> fetch.requests,
                 indicators |-> fetch.indicators,
                 indicatorsJSON |-> fetch.indicatorsJSON,
                 IDSindicators |-> IDSindicators, err |-> fetch.err]
    IN  IF fetch.err # NoError THEN none
        ELSE
        LET recs == FlatRecords(fetch.indicatorsJSON.val)
        IN  IF ~recs.ok THEN [none EXCEPT !.err = recs.err]
            ELSE
            LET loop == IndicatorsLoop(recs.val)
            IN  [none EXCEPT !.IDSindicators = loop.IDSindicators,
                             !.err = loop.err]

GetAllIndicators ==
    /\ pc = "In5" /\ err = NoError
    /\ \E outcome \in Outcomes, catalog \in CatalogsOf("indicator", IndicatorCatalogs) :
        LET run == GetAllIndicatorsRun(outcome, catalog) IN
        /\ server' = Served("indicator", outcome, catalog)
        /\ requestLog' = requestLog \o run.requests
        /\ indicators' = run.indicators
        /\ indicatorsJSON' = run.indicatorsJSON
        /\ IDSindicators' = run.IDSindicators
        /\ Finish(run.err, "In6")
    /\ UNCHANGED <<part2Vars, out, sourceVars, indicator, debtorVars, creditorVars,
                   frameVars>>

(***************************************************************************)
(* In [6]: print the sourceNote of the indicator DT.DOD.DLXF.CD.           *)
(***************************************************************************)
\* Lower-case codes folded onto their upper-case spelling.
FoldCase(c) == IF c = "dt.dod.dlxf.cd" THEN "DT.DOD.DLXF.CD" ELSE c

\* Mutant: the comparison ignores case.
Lookup_IgnoreCase(recs, c) ==
    SelectSeq(recs, LAMBDA r : FoldCase(r.id) = FoldCase(c))

\* Mutant: the loop breaks at the first match.
Lookup_FirstOnly(recs, c) ==
    LET hits == SelectSeq(recs, LAMBDA r : r.id = c)
    IN  IF hits = <<>> THEN <<>> ELSE <<hits[1]>>

\* The records of recs the test dict_entity["id"] == indicator lets through.
Lookup(recs, c) == SelectSeq(recs, LAMBDA r : r.id = c)

\* Mutant: the name of a matching record printed in place of its sourceNote.
SourceNoteLoop_PrintName(recs, c) ==
    LET bad == { i \in 1..Len(recs) :
                    \/ "id" \notin DOMAIN recs[i]
                    \/ recs[i].id = c /\ "sourceNote" \notin DOMAIN recs[i] }
        k == FirstOf(bad)
        seen == IF k = 0 THEN recs ELSE SubSeq(recs, 1, k - 1)
        hits == Lookup(seen, c)
    IN  [lines |-> [j \in 1..Len(hits) |-> <<hits[j].name>>],
         err |-> IF k = 0 THEN NoError
                 ELSE Raise("KeyError", MissingKey(recs[k], <<"id", "sourceNote">>))]

\* for dict_entity in indicatorsJSON[1]:
\*     if dict_entity["id"] == indicator: print(dict_entity["sourceNote"])
SourceNoteLoop(recs, c) ==
    LET bad == { i \in 1..Len(recs) :
                    \/ "id" \notin DOMAIN recs[i]
                    \/ recs[i].id = c /\ "sourceNote" \notin DOMAIN recs[i] }
        k == FirstOf(bad)
        seen == IF k = 0 THEN recs ELSE SubSeq(recs, 1, k - 1)
        hits == Lookup(seen, c)
    IN  [lines |-> [j \in 1..Len(hits) |-> <<hits[j].sourceNote>>],
         err |-> IF k = 0 THEN NoError
                 ELSE Raise("KeyError", MissingKey(recs[k], <<"id", "sourceNote">>))]

PrintSourceNoteRun(js) ==
    LET recs == FlatRecords(js) IN
    IF ~recs.ok THEN [lines |-> <<>>, err |-> recs.err]
    ELSE SourceNoteLoop(recs.val, IndicatorCode)

(***************************************************************************)
(* The R chunk of Part 1 that prints the definition of the indicator.      *)
(***************************************************************************)
\* indicatorsJSON$<key>: a column of the data frame fromJSON(flatten = TRUE)
\* makes of the records; a record without the key has NA in it.
Column(recs, key) ==
    [i \in 1..Len(recs) |-> IF key \in DOMAIN recs[i] THEN recs[i][key] ELSE "NA"]

\* which(col == x): the positions of col that hold x, in ascending order;
\* NA == x is NA, which which() leaves out.
which(col, x) ==
    SelectSeq([i \in 1..Len(col) |-> i], LAMBDA i : col[i] # "NA" /\ col[i] = x)

\* definition <- which(indicatorsJSON$id == indicator)
\* print(indicatorsJSON$sourceNote[definition])
definition(recs, c) ==
    LET at == which(Column(recs, "id"), c)
    IN  [j \in 1..Len(at) |-> Column(recs, "sourceNote")[at[j]]]

PrintSourceNote ==
    /\ pc = "In6" /\ err = NoError
    /\ indicator' = Bind(IndicatorCode)
    /\ LET run == PrintSourceNoteRun(indicatorsJSON.val) IN
        /\ out' = Printed(6, run.lines)
        /\ Finish(run.err, "In7")
    /\ UNCHANGED <<part2Vars, server, requestLog, sourceVars, indicators, indicatorsJSON,
                   IDSindicators, debtorVars, creditorVars, frameVars>>

(***************************************************************************)
(* In [7] and In [8]: request the debtor (country) and the creditor        *)
(* (counterpart-area) locations with per_page=300, build the table of ids  *)
(* and values row by row and print its first ten rows.                     *)
(***************************************************************************)
LocationsRequest(resource) ==
    Request(resource, [per_page |-> LocationsPerPage, format |-> "JSON"])

\* Mutant: the two columns filled from each other's key.
TableLoop_Swapped(recs, frame) ==
    LET bad == { i \in 1..Len(recs) : MissingKey(recs[i], <<"id", "value">>) # "" }
        k == FirstOf(bad)
        n == IF k = 0 THEN Len(recs) ELSE k - 1
    IN  [df |-> Bind([i \in 1..n |-> [id |-> recs[i].value, value |-> recs[i].id]]),
         code |-> frame.code,
         name |-> frame.name,
         err |-> IF k = 0 THEN NoError
                 ELSE Raise("KeyError", MissingKey(recs[k], <<"id", "value">>))]

\* Mutant: a missing key read as the empty string (dict.get(key, "")).
TableLoop_DefaultEmpty(recs, frame) ==
    LET get(r, key) == IF key \in DOMAIN r THEN r[key] ELSE ""
        n == Len(recs)
    IN  [df |-> Bind([i \in 1..n |-> [id |-> get(recs[i], "id"),
                                      value |-> get(recs[i], "value")]]),
         code |-> IF n = 0 THEN frame.code ELSE Bind(get(recs[n], "id")),
         name |-> IF n = 0 THEN frame.name ELSE Bind(get(recs[n], "value")),
         err |-> NoError]

\* df = pd.DataFrame(columns=["id", "value"])
\* Mutant: each row is put before the rows already in the table.
TableLoop_Reversed(recs, frame) ==
    LET bad == { i \in 1..Len(recs) : MissingKey(recs[i], <<"id", "value">>) # "" }
        k == FirstOf(bad)
        n == IF k = 0 THEN Len(recs) ELSE k - 1
    IN  [df |-> Bind([i \in 1..n |-> [id |-> recs[n + 1 - i].id,
                                      value |-> recs[n + 1 - i].value]]),
         code |-> IF k # 0 /\ "id" \in DOMAIN recs[k] THEN Bind(recs[k].id)
                  ELSE IF n = 0 THEN frame.code
                  ELSE Bind(recs[n].id),
         name |-> IF n = 0 THEN frame.name ELSE Bind(recs[n].value),
         err |-> IF k = 0 THEN NoError
                 ELSE Raise("KeyError", MissingKey(recs[k], <<"id", "value">>))]

\* for i in range(0, listLen):
\*     code = locations[i]["id"]; name = locations[i]["value"]
\*     df = df.append({"id": code, "value": name}, ignore_index=True)
TableLoop(recs, frame) ==
    LET bad == { i \in 1..Len(recs) : MissingKey(recs[i], <<"id", "value">>) # "" }
        k == FirstOf(bad)
        n == IF k = 0 THEN Len(recs) ELSE k - 1
    IN  [df |-> Bind([i \in 1..n |-> [id |-> recs[i].id, value |-> recs[i].value]]),
         code |-> IF k # 0 /\ "id" \in DOMAIN recs[k] THEN Bind(recs[k].id)
                  ELSE IF n = 0 THEN frame.code
                  ELSE Bind(recs[n].id),
         name |-> IF n = 0 THEN frame.name ELSE Bind(recs[n].value),
         err |-> IF k = 0 THEN NoError
                 ELSE Raise("KeyError", MissingKey(recs[k], <<"id", "value">>))]

\* print(table.head(n=10))
head(rows) ==
    << <<"", "id", "value">> >> \o
    [j \in 1..Min(HeadRows, Len(rows)) |-> <<ToString(j - 1), rows[j].id, rows[j].value>>]

\* Mutant: the table is bound to the result name after every row.
LocationsRun_BindEachRow(outcome, catalog, req, before) ==
    LET none == [before EXCEPT !.requests = <<req>>]
        resp == Get(outcome, catalog, req)
    IN  IF ~resp.ok THEN [none EXCEPT !.err = resp.err]
        ELSE
        LET got == [none EXCEPT !.locations = Bind(Response(outcome))]
            js == Json(resp.val)
        IN  IF ~js.ok THEN [got EXCEPT !.err = js.err]
            ELSE
            LET parsed == [got EXCEPT !.locationsJSON = Bind(js.val)]
                recs == NestedVariable(js.val)
            IN  IF ~recs.ok THEN [parsed EXCEPT !.err = recs.err]
                ELSE
                LET loop == TableLoop(recs.val, before)
                    built == [parsed EXCEPT !.locations = Bind(PyList(recs.val)),
                                            !.listLen = Bind(Len(recs.val)),
                                            !.df = loop.df,
                                            !.code = loop.code,
                                            !.name = loop.name,
                                            !.locationsList = loop.df,
                                            !.err = loop.err]
                IN  IF loop.err # NoError THEN built
                    ELSE [built EXCEPT !.lines = head(loop.df.val)]

\* One location cell.  before holds the bindings at the start of the cell
\* of the three names the cell assigns (locations, locationsJSON,
\* locationsList) and of the working names shared by both cells.
LocationsRun(outcome, catalog, req, before) ==
    LET none == [before EXCEPT !.requests = <<req>>]
        resp == Get(outcome, catalog, req)
    IN  IF ~resp.ok THEN [none EXCEPT !.err = resp.err]
        ELSE
        LET got == [none EXCEPT !.locations = Bind(Response(outcome))]
            js == Json(resp.val)
        IN  IF ~js.ok THEN [got EXCEPT !.err = js.err]
            ELSE
            LET parsed == [got EXCEPT !.locationsJSON = Bind(js.val)]
                recs == NestedVariable(js.val)
            IN  IF ~recs.ok THEN [parsed EXCEPT !.err = recs.err]
                ELSE
                LET loop == TableLoop(recs.val, before)
                    built == [parsed EXCEPT !.locations = Bind(PyList(recs.val)),
                                            !.listLen = Bind(Len(recs.val)),
                                            !.df = loop.df,
                                            !.code = loop.code,
                                            !.name = loop.name,
                                            !.err = loop.err]
                IN  IF loop.err # NoError THEN built
                    ELSE [built EXCEPT !.locationsList = loop.df,
                                       !.lines = head(loop.df.val)]

Frame(locations, locationsJSON, locationsList) ==
    [requests |-> <<>>,
     locations |-> locations, locationsJSON |-> locationsJSON,
     locationsList |-> locationsList,
     listLen |-> listLen, df |-> df, code |-> code, name |-> name,
     lines |-> <<>>, err |-> NoError]

DebtorLocations ==
    /\ pc = "In7" /\ err = NoError
    /\ \E outcome \in Outcomes, catalog \in CatalogsOf("country", LocationCatalogs) :
        LET req == LocationsRequest("sources/6/country")
            run == LocationsRun(outcome, catalog, req,
                                Frame(dlocations, dlocationsJSON, dlocationsList))
        IN  /\ server' = Served("country", outcome, catalog)
            /\ requestLog' = requestLog \o run.requests
            /\ dlocations' = run.locations
            /\ dlocationsJSON' = run.locationsJSON
            /\ dlocationsList' = run.locationsList
            /\ listLen' = run.listLen
            /\ df' = run.df
            /\ code' = run.code
            /\ name' = run.name
            /\ out' = Printed(7, run.lines)
            /\ Finish(run.err, "In8")
    /\ UNCHANGED <<part2Vars, sourceVars, indicatorVars, creditorVars>>

\* Mutant: In [8] appends its rows in place to the DataFrame df names at the
\* start of the cell, the object dlocationsList names as well.
KeptFrame_AppendInPlace(held, run) ==
    IF held.bound /\ run.df.bound /\ run.df # df
    THEN Bind(held.val \o run.df.val)
    ELSE held

\* dlocationsList = df made dlocationsList a second name of the DataFrame
\* df names at the end of In [7].  In [8] binds df to a new DataFrame before
\* its loop, and df.append returns a new DataFrame at every row: the object
\* dlocationsList names is not written by the cell.
KeptFrame(held, run) == held

CreditorLocations ==
    /\ pc = "In8" /\ err = NoError
    /\ \E outcome \in Outcomes, catalog \in CatalogsOf("counterpart", CreditorCatalogs) :
        LET req == LocationsRequest("sources/6/counterpart-area")
            run == LocationsRun(outcome, catalog, req,
                                Frame(clocations, clocationsJSON, clocationsList))
        IN  /\ server' = Served("counterpart", outcome, catalog)
            /\ requestLog' = requestLog \o run.requests
            /\ clocations' = run.locations
            /\ clocationsJSON' = run.locationsJSON
            /\ clocationsList' = run.locationsList
            /\ listLen' = run.listLen
            /\ df' = run.df
            /\ code' = run.code
            /\ name' = run.name
            /\ dlocationsList' = KeptFrame(dlocationsList, run)
            /\ out' = Printed(8, run.lines)
            /\ Finish(run.err, "done")
    /\ UNCHANGED <<part2Vars, sourceVars, indicatorVars, dlocations, dlocationsJSON>>

Next ==
    \/ ImportPackages
    \/ GetSources
    \/ RequestIndicators
    \/ PrintTotal
    \/ GetAllIndicators
    \/ PrintSourceNote
    \/ DebtorLocations
    \/ CreditorLocations

Spec == Init /\ [][Next]_vars

(***************************************************************************)
(* The reader of the notebook runs In [5] a second time before going on to *)
(* In [6]: the same cell, the same request, the same server.               *)
(***************************************************************************)
RunAgain ==
    /\ pc = "In6" /\ err = NoError
    /\ Len(requestLog) < 3 + MaxRepeat
    /\ pc' = "In5"
    /\ UNCHANGED <<part2Vars, server, requestLog, out, err, sourceVars, indicatorVars,
                   debtorVars, creditorVars, frameVars>>

NextRepeat ==
    \/ ImportPackages
    \/ GetSources
    \/ RequestIndicators
    \/ PrintTotal
    \/ GetAllIndicators
    \/ RunAgain

SpecRepeat == Init /\ [][NextRepeat]_vars

(***************************************************************************)
(* Part 2 (Python): get the data with wbdata and explore it.               *)
(***************************************************************************)
\* A character string, written as the sequence of its characters.
ExcludingHighIncome ==
    <<"e", "x", "c", "l", "u", "d", "i", "n", "g", " ",
      "h", "i", "g", "h", " ", "i", "n", "c", "o", "m", "e">>
SouthAsia == <<"S", "o", "u", "t", "h", " ", "A", "s", "i", "a">>
EastAsia ==
    <<"E", "a", "s", "t", " ", "A", "s", "i", "a", " ", "(">>
        \o ExcludingHighIncome \o <<")">>

\* The pieces region names are put together from.
Pieces ==
    { <<"A", "s", "i", "a">>, <<" ">>, <<"(">>, <<")">>,
      ExcludingHighIncome, <<"(">> \o ExcludingHighIncome \o <<")">>,
      <<"(", "I", "D", "A", ")">> }

\* The names made of at most n pieces.
NamesOf(n) ==
    LET join(f) == LET cat[i \in 0..Len(f)] ==
                            IF i = 0 THEN <<>> ELSE cat[i - 1] \o f[i]
                   IN  cat[Len(f)]
    IN  { join(f) : f \in SeqUpTo(Pieces, n) }

\* Amounts in units (US$): around every whole and every half billion from
\* -MaxBillions to MaxBillions billions.
Billion == 1000000000
Amounts ==
    { k * Billion + d :
        k \in (0 - MaxBillions)..(MaxBillions - 1),
        d \in {0, 1, Billion \div 2 - 1, Billion \div 2, Billion \div 2 + 1,
               Billion - 1} }

\* What wbdata.get_dataframe can come back with.
Row(country, date, amount) ==
    [country |-> country, date |-> date, ExternalDebtStock |-> amount]

DebtRows ==
    { Row(c, "2018", x) : c \in {EastAsia, SouthAsia},
                          x \in {Billion + Billion \div 2, Billion \div 2 - 1} }

DebtData == SeqUpTo(DebtRows, MaxRows)

AmountData == [1..MaxRows -> { Row(SouthAsia, "2018", x) : x \in Amounts }]

NameData == { << Row(c, "2018", Billion) >> : c \in NamesOf(MaxPieces) }

\* The DataFrame get_dataframe builds of the rows: the index holds the
\* (country, date) pairs, the one column holds the values.
DataFrame(rows) ==
    [index |-> [i \in 1..Len(rows) |-> <<rows[i].country, rows[i].date>>],
     ExternalDebtStock |-> [i \in 1..Len(rows) |-> rows[i].ExternalDebtStock]]

\* The installed wbdata: one whose get_source takes the keyword display,
\* or one whose get_source does not.
WbdataVersions == {"display", "no display"}

PyNone == [t |-> "None", v |-> <<>>]

\* wbdata.get_source(source_id=6, display=None)
get_source(version) ==
    IF version = "no display"
    THEN {Fail(Raise("TypeError",
                     "get_source() got an unexpected keyword argument 'display'"))}
    ELSE {Ok(PyList(<< [id |-> "6", name |-> IDSName] >>)), Ok(PyNone)}

\* wbdata.get_dataframe(indicatorSelection, source=IDS, country=..., ...)
get_dataframe(outcome, rows) ==
    IF outcome = "network" THEN Fail(Raise("ConnectionError", "wbdata"))
    ELSE Ok(DataFrame(rows))

\* frame.head(): the first five rows.
PreviewRows == 5
FrameHead(rows) == SubSeq(rows, 1, Min(PreviewRows, Len(rows)))

\* pd.DataFrame(EXD.to_records()): one row per index entry, the index
\* levels as the columns country and date.
to_records(frame) ==
    [i \in 1..Len(frame.index) |->
        [country |-> frame.index[i][1], date |-> frame.index[i][2],
         ExternalDebtStock |-> frame.ExternalDebtStock[i]]]

\* x / 1000000000: the quotient as its floor and the remainder in units.
TrueDiv(x, d) == [floor |-> x \div d, rem |-> x % d, of |-> d]

\* round(y): to the nearest whole number, a half to the even neighbour.
round(y) ==
    IF 2 * y.rem = y.of
    THEN (IF y.floor % 2 = 0 THEN y.floor ELSE y.floor + 1)
    ELSE IF 2 * y.rem > y.of THEN y.floor + 1
    ELSE y.floor

\* Mutant: the fraction cut off (int(y)) in place of round(y).
formatNum_Truncate(x) ==
    LET y == TrueDiv(x, Billion)
    IN  IF y.floor < 0 /\ y.rem # 0 THEN y.floor + 1 ELSE y.floor

\* def formatNum(x): y = x/1000000000; z = round(y); return(z)
formatNum(x) ==
    LET y == TrueDiv(x, Billion)
        z == round(y)
    IN  z

\* EXDreshaped.rename(index=str, columns={"date": "Year", "country": "Region"})
rename(rows) ==
    [i \in 1..Len(rows) |->
        [Region |-> rows[i].country, Year |-> rows[i].date,
         ExternalDebtStock |-> rows[i].ExternalDebtStock]]

\* .str.replace(pat, repl): every occurrence of pat, found from the left and
\* not overlapping, replaced by repl.
str_replace(s, pat, repl) ==
    LET n == Len(s)
        m == Len(pat)
        hit(i) == i + m - 1 <= n /\ SubSeq(s, i, i + m - 1) = pat
        rest[i \in 1..(n + m)] ==
            IF i > n THEN <<>>
            ELSE IF hit(i) THEN repl \o rest[i + m]
            ELSE <<s[i]>> \o rest[i + 1]
    IN  rest[1]

\* .str.replace("excluding high income","").str.replace(")","").str.replace("(","")
CleanRegion(s) ==
    str_replace(str_replace(str_replace(s, ExcludingHighIncome, <<>>),
                            <<")">>, <<>>),
                <<"(">>, <<>>)

Finish2(e, next) ==
    /\ err2' = e
    /\ pc2' = IF e = NoError THEN next ELSE pc2

\* import pandas, numpy, datetime, wbdata, plotly
ImportPackages2 ==
    /\ pc2 = "imports" /\ err2 = NoError
    /\ \E version \in WbdataVersions : wbdata' = Bind(version)
    /\ Finish2(NoError, "indicatorSelection")
    /\ UNCHANGED <<part1Vars, out2, indicatorSelection, locationSelection,
                   timeSelection, IDS, frames2>>

SelectIndicator ==
    /\ pc2 = "indicatorSelection" /\ err2 = NoError
    /\ indicatorSelection' =
          Bind([code |-> IndicatorCode, name |-> "ExternalDebtStock"])
    /\ Finish2(NoError, "locationSelection")
    /\ UNCHANGED <<part1Vars, out2, wbdata, locationSelection, timeSelection,
                   IDS, frames2>>

SelectLocations ==
    /\ pc2 = "locationSelection" /\ err2 = NoError
    /\ locationSelection' = Bind(<<"ECA", "SSA", "SAS", "LAC", "MNA", "EAP">>)
    /\ Finish2(NoError, "timeSelection")
    /\ UNCHANGED <<part1Vars, out2, wbdata, indicatorSelection, timeSelection,
                   IDS, frames2>>

SelectTime ==
    /\ pc2 = "timeSelection" /\ err2 = NoError
    /\ timeSelection' = Bind(<< <<2009, 1, 1>>, <<2018, 12, 31>> >>)
    /\ Finish2(NoError, "IDS")
    /\ UNCHANGED <<part1Vars, out2, wbdata, indicatorSelection,
                   locationSelection, IDS, frames2>>

\* IDS = wbdata.get_source(source_id=6, display=None)
SelectSource ==
    /\ pc2 = "IDS" /\ err2 = NoError
    /\ \E got \in get_source(wbdata.val) :
          /\ IDS' = IF got.ok THEN Bind(got.val) ELSE IDS
          /\ Finish2(IF got.ok THEN NoError ELSE got.err, "EXD")
    /\ UNCHANGED <<part1Vars, out2, wbdata, indicatorSelection,
                   locationSelection, timeSelection, frames2>>

\* A name read by a cell: its value, or NameError.
Read(binding, id) ==
    IF binding.bound THEN Ok(binding.val)
    ELSE Fail(Raise("NameError", id))

\* EXD = wbdata.get_dataframe(indicatorSelection, source=IDS, ...)
GetDataFrame ==
    /\ pc2 = "EXD" /\ err2 = NoError
    /\ \E outcome \in {"frame", "network"}, rows \in DebtData :
          LET src == Read(IDS, "IDS")
              got == IF src.ok THEN get_dataframe(outcome, rows) ELSE src
          IN  /\ EXD' = IF got.ok THEN Bind(got.val) ELSE EXD
              /\ Finish2(IF got.ok THEN NoError ELSE got.err, "previewEXD")
    /\ UNCHANGED <<part1Vars, out2, wbdata, indicatorSelection,
                   locationSelection, timeSelection, IDS, EXDreshaped,
                   EXDclean, source, chart>>

\* print(EXD.head())
PreviewEXD ==
    /\ pc2 = "previewEXD" /\ err2 = NoError
    /\ out2' = out2 \o FrameHead(to_records(EXD.val))
    /\ Finish2(NoError, "EXDreshaped")
    /\ UNCHANGED <<part1Vars, wbdata, indicatorSelection, locationSelection,
                   timeSelection, IDS, frames2>>

\* EXDreshaped = pd.DataFrame(EXD.to_records())
Reshape ==
    /\ pc2 = "EXDreshaped" /\ err2 = NoError
    /\ EXDreshaped' = Bind(to_records(EXD.val))
    /\ Finish2(NoError, "formatNum")
    /\ UNCHANGED <<part1Vars, out2, wbdata, indicatorSelection,
                   locationSelection, timeSelection, IDS, EXD, EXDclean,
                   source, chart>>

\* EXDreshaped.ExternalDebtStock = formatNum(EXDreshaped.ExternalDebtStock)
FormatColumn ==
    /\ pc2 = "formatNum" /\ err2 = NoError
    /\ EXDreshaped' =
          Bind([i \in 1..Len(EXDreshaped.val) |->
                  [EXDreshaped.val[i] EXCEPT
                      !.ExternalDebtStock = formatNum(@)]])
    /\ Finish2(NoError, "EXDclean")
    /\ UNCHANGED <<part1Vars, out2, wbdata, indicatorSelection,
                   locationSelection, timeSelection, IDS, EXD, EXDclean,
                   source, chart>>

\* EXDclean = EXDreshaped.rename(...)
RenameColumns ==
    /\ pc2 = "EXDclean" /\ err2 = NoError
    /\ EXDclean' = Bind(rename(EXDreshaped.val))
    /\ Finish2(NoError, "Region")
    /\ UNCHANGED <<part1Vars, out2, wbdata, indicatorSelection,
                   locationSelection, timeSelection, IDS, EXD, EXDreshaped,
                   source, chart>>

\* EXDclean["Region"] = EXDclean["Region"].str.replace(...)...
CleanRegions ==
    /\ pc2 = "Region" /\ err2 = NoError
    /\ EXDclean' =
          Bind([i \in 1..Len(EXDclean.val) |->
                  [EXDclean.val[i] EXCEPT !.Region = CleanRegion(@)]])
    /\ Finish2(NoError, "previewEXDclean")
    /\ UNCHANGED <<part1Vars, out2, wbdata, indicatorSelection,
                   locationSelection, timeSelection, IDS, EXD, EXDreshaped,
                   source, chart>>

\* print(EXDclean.head())
PreviewEXDclean ==
    /\ pc2 = "previewEXDclean" /\ err2 = NoError
    /\ out2' = out2 \o FrameHead(EXDclean.val)
    /\ Finish2(NoError, "chart")
    /\ UNCHANGED <<part1Vars, wbdata, indicatorSelection, locationSelection,
                   timeSelection, IDS, frames2>>

\* source = EXDclean; chart = px.line(EXDclean, x="Year", ...)
Chart ==
    /\ pc2 = "chart" /\ err2 = NoError
    /\ source' = EXDclean
    /\ chart' = Bind([data |-> EXDclean.val, x |-> "Year",
                      y |-> "ExternalDebtStock", color |-> "Region",
                      plot_bgcolor |-> "white"])
    /\ Finish2(NoError, "done")
    /\ UNCHANGED <<part1Vars, out2, wbdata, indicatorSelection,
                   locationSelection, timeSelection, IDS, EXD, EXDreshaped,
                   EXDclean>>

NextPart2 ==
    \/ ImportPackages2
    \/ SelectIndicator
    \/ SelectLocations
    \/ SelectTime
    \/ SelectSource
    \/ GetDataFrame
    \/ PreviewEXD
    \/ Reshape
    \/ FormatColumn
    \/ RenameColumns
    \/ CleanRegions
    \/ PreviewEXDclean
    \/ Chart

SpecPart2 == Init /\ [][NextPart2]_vars

\* The run of Part 2 at the cell named cell, the cells before it having run
\* with the installed wbdata taking display and get_dataframe having
\* returned the rows.
Part2At(cell, rows) ==
    LET order == <<"EXDreshaped", "formatNum", "EXDclean", "Region">>
        at == CHOOSE i \in 1..Len(order) : order[i] = cell
        records == to_records(DataFrame(rows))
        formatted == [i \in 1..Len(records) |->
                        [records[i] EXCEPT !.ExternalDebtStock = formatNum(@)]]
    IN  /\ pc2 = cell /\ err2 = NoError
        /\ out2 = FrameHead(records)
        /\ wbdata = Bind("display")
        /\ indicatorSelection =
              Bind([code |-> IndicatorCode, name |-> "ExternalDebtStock"])
        /\ locationSelection = Bind(<<"ECA", "SSA", "SAS", "LAC", "MNA", "EAP">>)
        /\ timeSelection = Bind(<< <<2009, 1, 1>>, <<2018, 12, 31>> >>)
        /\ IDS = Bind(PyNone)
        /\ EXD = Bind(DataFrame(rows))
        /\ EXDreshaped = IF at = 1 THEN Unbound
                         ELSE IF at = 2 THEN Bind(records)
                         ELSE Bind(formatted)
        /\ EXDclean = IF at = 4 THEN Bind(rename(formatted)) ELSE Unbound
        /\ source = Unbound /\ chart = Unbound

\* formatNum applied to the column of a frame of any amounts.
InitFormatNum ==
    /\ Part1Start
    /\ \E rows \in AmountData : Part2At("formatNum", rows)

NextFormatNum == FormatColumn \/ RenameColumns

SpecFormatNum == InitFormatNum /\ [][NextFormatNum]_vars

\* The region clean-up applied to a frame of any region names.
InitClean ==
    /\ Part1Start
    /\ \E rows \in NameData : Part2At("Region", rows)

NextClean == CleanRegions \/ PreviewEXDclean

SpecClean == InitClean /\ [][NextClean]_vars

(***************************************************************************)
(* Properties.                                                             *)
(***************************************************************************)
\* The cell at pc has run to its end or raised after binding its JSON.
Past(cell) ==
    LET order == <<"In1", "In2", "In3", "In4", "In5", "In6", "In7", "In8", "done">>
        at(c) == CHOOSE i \in 1..Len(order) : order[i] = c
    IN  \/ at(pc) > at(cell)
        \/ pc = cell /\ err.type \notin {"none", "ConnectionError", "JSONDecodeError"}

\* js is bound to a two-element array [paging, records].
HasRecords(js) == js.bound /\ js.val.t = "list" /\ Len(js.val.v) = 2

\* js is bound to an object that nests its records under source.
HasVariable(js) == js.bound /\ js.val.t = "dict" /\ "source" \in DOMAIN js.val.v

\* The first min(T, P) records of a catalog of T records.
FirstPage(catalog, P) == SubSeq(catalog, 1, Min(Len(catalog), P))

\* C1: every fetch holds exactly the first min(T, P) records of the
\* server's catalog of T records, in server order, for the per_page P of
\* its request (100 for the sources, the default 50 and then 500 for the
\* indicators, 300 for the locations); and a cell that raised after it got
\* such a page raised because a record of the page lacks a key, never
\* because T > P.
C1_FetchAllReturnsFirstPage ==
    /\ HasRecords(sourcesJSON) =>
          sourcesJSON.val.v[2] = FirstPage(server.sources.val, SourcesPerPage)
    /\ HasRecords(indicatorsJSON) =>
          indicatorsJSON.val.v[2] =
              FirstPage(server.indicator.val,
                        IF Past("In5") THEN IndicatorsPerPage ELSE DefaultPerPage)
    /\ HasVariable(dlocationsJSON) /\ Past("In7") =>
          dlocations.val.v = FirstPage(server.country.val, LocationsPerPage)
    /\ HasVariable(clocationsJSON) /\ Past("In8") =>
          clocations.val.v = FirstPage(server.counterpart.val, LocationsPerPage)
    /\ pc = "In5" /\ Past("In5") /\ HasRecords(indicatorsJSON) =>
          \E i \in DOMAIN indicatorsJSON.val.v[2] :
              MissingKey(indicatorsJSON.val.v[2][i], <<"id", "name">>) # ""
    /\ pc = "In7" /\ Past("In7") /\ HasVariable(dlocationsJSON) =>
          \E i \in DOMAIN dlocations.val.v :
              MissingKey(dlocations.val.v[i], <<"id", "value">>) # ""

\* C1 witness: the server holds 569 indicators and the per_page=500 cell
\* ended without error holding 500 of them.
C1_Witness ==
    /\ pc = "In6" /\ err = NoError
    /\ Len(server.indicator.val) = ObservedTotal
    /\ Len(indicatorsJSON.val.v[2]) = IndicatorsPerPage

\* The lines cell n printed, in order.
LinesOf(n) ==
    LET mine == SelectSeq(out, LAMBDA o : o.cell = n)
    IN  [j \in 1..Len(mine) |-> mine[j].line]

\* The cell has run to its end without raising.
Done(cell) == Past(cell) /\ pc # cell

\* C2 (as claimed): the per_page of the request that follows the total-count
\* query is at least the total that query reported, so the response of the
\* per_page=500 request holds every indicator of the server.
C2_PerPageCoversTotal ==
    Done("In5") =>
        /\ IndicatorsPerPage >= indicatorsJSON.val.v[1].total
        /\ indicatorsJSON.val.v[2] = server.indicator.val

\* C3: the total the notebook prints is the total of the server's catalog,
\* whatever the page size of the request and however many records the page
\* holds; both the default request and the per_page=500 request carry it.
C3_TotalCountIsServerTotal ==
    /\ \A j \in DOMAIN LinesOf(4) :
          LinesOf(4)[j] =
              <<"There are ", ToString(Len(server.indicator.val)), " IDS indicators">>
    /\ Done("In4") => Len(LinesOf(4)) = 1
    /\ HasRecords(indicatorsJSON) =>
          PagingTotal(indicatorsJSON.val) = Ok(Len(server.indicator.val))

\* C3 witness: 569 was printed from a page that holds 50 records.
C3_Witness ==
    /\ pc = "In5" /\ err = NoError
    /\ LinesOf(4) = << <<"There are ", "569", " IDS indicators">> >>
    /\ Len(indicatorsJSON.val.v[2]) = DefaultPerPage

\* The number of GETs the cells up to the current position have issued: one
\* for each cell that fetches and has run or has raised.
FetchesStarted ==
    LET fetching == <<"In2", "In3", "In5", "In7", "In8">>
    IN  Cardinality({ i \in 1..Len(fetching) :
                        \/ Done(fetching[i])
                        \/ pc = fetching[i] /\ err # NoError })

\* C4: every fetch issues exactly one GET: the log holds one request per
\* fetch, in the order of the cells, and no request carries a page
\* parameter, whatever the totals.
C4_OneGetPerFetch ==
    /\ Len(requestLog) = FetchesStarted
    /\ \A i \in DOMAIN requestLog :
          /\ "page" \notin DOMAIN requestLog[i].params
          /\ requestLog[i].resource =
                <<"sources", "indicator", "indicator", "sources/6/country",
                  "sources/6/counterpart-area">>[i]

\* C4 witness: the run has ended, five GETs were issued, and the indicator
\* catalog is larger than the page that was requested.
C4_Witness ==
    /\ pc = "done"
    /\ Len(requestLog) = 5
    /\ Len(server.indicator.val) > IndicatorsPerPage

\* The records In [5] left bound, and the positions of those with code c.
IndicatorRecords == indicatorsJSON.val.v[2]
Matches(c) == { i \in DOMAIN IndicatorRecords : IndicatorRecords[i].id = c }

\* In [6] has run: to its end, or to the statement that raised.
Ran(cell) == Done(cell) \/ (pc = cell /\ err # NoError)

\* C5: when no record has the code DT.DOD.DLXF.CD, In [6] ends without an
\* error and prints nothing; when exactly one record has exactly that code
\* (a code that differs in case does not count), In [6] prints the
\* sourceNote of that record and nothing else.
C5_LookupExactOrNotFound ==
    Ran("In6") =>
        /\ Matches(IndicatorCode) = {} => Done("In6") /\ LinesOf(6) = <<>>
        /\ \A i \in Matches(IndicatorCode) :
              Matches(IndicatorCode) = {i} /\ "sourceNote" \in DOMAIN IndicatorRecords[i]
                  => Done("In6") /\ LinesOf(6) = << <<IndicatorRecords[i].sourceNote>> >>

\* C5 witness: one record has the code, another has it in lower case, and
\* the note of the first alone was printed.
C5_Witness ==
    /\ Done("In6")
    /\ Cardinality(Matches(IndicatorCode)) = 1
    /\ Matches("dt.dod.dlxf.cd") # {}
    /\ LinesOf(6) = << <<Target.sourceNote>> >>

\* C6 (as claimed): when several records have the code, In [6] produces the
\* first of them only.
C6_FirstMatchOnly ==
    Done("In6") /\ Cardinality(Matches(IndicatorCode)) > 1 =>
        LinesOf(6) =
            << <<IndicatorRecords[FirstOf(Matches(IndicatorCode))].sourceNote>> >>

\* C6 (amended): when several records have the code, In [6] produces every
\* one of them, in sequence order, the first match first; In [2] likewise
\* prints the id of every source with the wanted name.  A cell that raised
\* did so at a record that lacks a key it reads, not because of the
\* repetition.
C6_AllMatchesInOrder ==
    /\ Done("In6") =>
          LET hits == SelectSeq(IndicatorRecords, LAMBDA r : r.id = IndicatorCode)
          IN  LinesOf(6) = [j \in 1..Len(hits) |-> <<hits[j].sourceNote>>]
    /\ pc = "In6" /\ err # NoError =>
          \E i \in Matches(IndicatorCode) : "sourceNote" \notin DOMAIN IndicatorRecords[i]
    /\ Done("In2") =>
          LET hits == SelectSeq(sourcesJSON.val.v[2], LAMBDA r : r.name = IDSName)
          IN  LinesOf(2) =
                [j \in 1..Len(hits) |->
                    <<"The source ID for International Debt Statistics is ", hits[j].id>>]

\* C6 witness: two records have the code and both notes were printed, the
\* note of the first record first.
C6_Witness ==
    /\ Done("In6")
    /\ Matches(IndicatorCode) = {1, 2}
    /\ LinesOf(6) = << <<IndicatorRecords[1].sourceNote>>, <<IndicatorRecords[2].sourceNote>> >>
    /\ IndicatorRecords[1].sourceNote # IndicatorRecords[2].sourceNote

\* The exceptions the specification calls ParseError.
ParseErrors == {"JSONDecodeError", "KeyError", "IndexError", "TypeError"}

\* C7: a body of the nested shape read by a cell that walks the flat shape,
\* and a body of the flat shape read by a cell that walks the nested shape,
\* end in an error of the parse kind at that cell: the run never gets past
\* it, nothing is printed from the body and no table is built from it.
C7_SchemaCorrect ==
    /\ sourcesJSON.bound /\ sourcesJSON.val.t = "dict" =>
          pc = "In2" /\ err.type \in ParseErrors /\ LinesOf(2) = <<>>
    /\ indicatorsJSON.bound /\ indicatorsJSON.val.t = "dict" =>
          /\ IDSindicators = Unbound /\ LinesOf(6) = <<>>
          /\ \/ pc = "In4" /\ LinesOf(4) = <<>>
                /\ err.type \in ParseErrors \cup {"none"}
             \/ pc = "In5" /\ err.type \in ParseErrors
    /\ dlocationsJSON.bound /\ dlocationsJSON.val.t = "list" =>
          /\ pc = "In7" /\ err.type \in ParseErrors
          /\ dlocations.val.t = "Response"
          /\ dlocationsList = Unbound /\ LinesOf(7) = <<>>
    /\ clocationsJSON.bound /\ clocationsJSON.val.t = "list" =>
          /\ pc = "In8" /\ err.type \in ParseErrors
          /\ clocations.val.t = "Response"
          /\ clocationsList = Unbound /\ LinesOf(8) = <<>>

\* C7 witness: In [7] was answered with the two-element array of the flat
\* shape and raised TypeError.
C7_Witness ==
    /\ pc = "In7" /\ err.type = "TypeError"
    /\ HasRecords(dlocationsJSON)

\* C8 (as claimed): every record of every result has a non-empty code and a
\* non-empty name.
C8_NonEmptyCodeAndName ==
    /\ Done("In5") =>
          \A i \in DOMAIN IndicatorRecords :
              IndicatorRecords[i].id # "" /\ IndicatorRecords[i].name # ""
    /\ dlocationsList.bound =>
          \A i \in DOMAIN dlocationsList.val :
              dlocationsList.val[i].id # "" /\ dlocationsList.val[i].value # ""
    /\ clocationsList.bound =>
          \A i \in DOMAIN clocationsList.val :
              clocationsList.val[i].id # "" /\ clocationsList.val[i].value # ""

\* C8 (amended): every record of every result has a code and a name, and
\* they are the id and the name or value strings the server holds for the
\* record in that position, unchanged, empty ones included.
C8_CodeAndNameAsServed ==
    /\ Done("In5") =>
          \A i \in DOMAIN IndicatorRecords :
              /\ {"id", "name"} \subseteq DOMAIN IndicatorRecords[i]
              /\ IndicatorRecords[i].id = server.indicator.val[i].id
              /\ IndicatorRecords[i].name = server.indicator.val[i].name
    /\ dlocationsList.bound =>
          \A i \in DOMAIN dlocationsList.val :
              /\ dlocationsList.val[i].id = server.country.val[i].id
              /\ dlocationsList.val[i].value = server.country.val[i].value
    /\ clocationsList.bound =>
          \A i \in DOMAIN clocationsList.val :
              /\ clocationsList.val[i].id = server.counterpart.val[i].id
              /\ clocationsList.val[i].value = server.counterpart.val[i].value

\* C8 witness: the debtor table holds a row whose id and value are empty,
\* as the server's entry is.
C8_Witness ==
    /\ dlocationsList.bound
    /\ \E i \in DOMAIN dlocationsList.val :
          /\ dlocationsList.val[i] = [id |-> "", value |-> ""]
          /\ server.country.val[i] = [id |-> "", value |-> ""]

\* The entries a location cell walked, once it has bound them as a list.
Walked(locations) ==
    IF locations.bound /\ locations.val.t = "list" THEN locations.val.v ELSE <<>>

\* The rows of a table made of the entries recs, one row per entry.
RowsOf(recs) == [i \in DOMAIN recs |-> [id |-> recs[i].id, value |-> recs[i].value]]

\* C9: a cell that raised an error of the parse kind stopped the run at that
\* cell and bound no result: the result name of a location cell is bound
\* only to the table of the whole page, never to the rows parsed before the
\* entry that raised; the loop stopped at the first entry that lacks a key
\* (the working table df holds the rows before it and no row after it);
\* nothing was printed by the cell and no later cell ran.
C9_NoPartialResult ==
    /\ dlocationsList.bound =>
          Done("In7") /\ dlocationsList.val = RowsOf(Walked(dlocations))
    /\ clocationsList.bound =>
          Done("In8") /\ clocationsList.val = RowsOf(Walked(clocations))
    /\ pc = "In7" /\ err.type \in ParseErrors =>
          /\ dlocationsList = Unbound /\ LinesOf(7) = <<>>
          /\ clocationsJSON = Unbound
    /\ pc = "In8" /\ err.type \in ParseErrors =>
          clocationsList = Unbound /\ LinesOf(8) = <<>>
    /\ pc = "In5" /\ err.type \in ParseErrors =>
          LinesOf(6) = <<>> /\ indicator = Unbound /\ dlocationsJSON = Unbound
    /\ \A cell \in {"In7", "In8"} :
          LET recs == Walked(IF cell = "In7" THEN dlocations ELSE clocations)
          IN  pc = cell /\ err.type = "KeyError" /\ recs # <<>> =>
                /\ Len(df.val) < Len(recs)
                /\ df.val = RowsOf(SubSeq(recs, 1, Len(df.val)))
                /\ MissingKey(recs[Len(df.val) + 1], <<"id", "value">>) # ""

\* C9 witness: In [8] raised KeyError at its second entry; df holds the one
\* row parsed before it, clocationsList is unbound and the debtor table is
\* still bound.
C9_Witness ==
    /\ pc = "In8" /\ err.type = "KeyError"
    /\ Len(Walked(clocations)) = 2 /\ Len(df.val) = 1
    /\ clocationsList = Unbound
    /\ dlocationsList.bound

\* C10: a record that lacks a key the cell reads raises KeyError with the
\* name of a key the record lacks (the first the cell reads of it); the run
\* never gets past the cell with such a record in the page, so the record is
\* neither skipped nor given a default: a finished cell has a page whose
\* records all have their keys, and a table with a row for each of them.
C10_MissingKeyRaisesKeyError ==
    /\ Done("In5") =>
          \A i \in DOMAIN IndicatorRecords :
              {"id", "name"} \subseteq DOMAIN IndicatorRecords[i]
    /\ pc = "In5" /\ Past("In5") /\ HasRecords(indicatorsJSON) =>
          /\ err.type = "KeyError" /\ err.arg \in {"id", "name"}
          /\ \E k \in DOMAIN IndicatorRecords :
                /\ err.arg \notin DOMAIN IndicatorRecords[k]
                /\ err.arg = "name" => "id" \in DOMAIN IndicatorRecords[k]
                /\ \A j \in 1..(k - 1) :
                      {"id", "name"} \subseteq DOMAIN IndicatorRecords[j]
    /\ \A cell \in {"In7", "In8"} :
          LET locations == IF cell = "In7" THEN dlocations ELSE clocations
              table == IF cell = "In7" THEN dlocationsList ELSE clocationsList
              recs == Walked(locations)
          IN  /\ Done(cell) =>
                    /\ locations.val.t = "list"
                    /\ \A i \in DOMAIN recs : {"id", "value"} \subseteq DOMAIN recs[i]
                    /\ table.val = RowsOf(recs)
              /\ pc = cell /\ err # NoError /\ locations.bound /\ locations.val.t = "list" =>
                    /\ err.type = "KeyError" /\ err.arg \in {"id", "value"}
                    /\ err.arg \notin DOMAIN recs[Len(df.val) + 1]
                    /\ err.arg = "value" => "id" \in DOMAIN recs[Len(df.val) + 1]

\* C10 witness: In [7] raised KeyError: 'value' at an entry that has an id
\* and no value.
C10_Witness ==
    /\ pc = "In7" /\ err = Raise("KeyError", "value")
    /\ \E i \in DOMAIN Walked(dlocations) :
          DOMAIN Walked(dlocations)[i] = {"id"}

\* C11: a call of In [5] that follows a call with the same request, against
\* the server as the first call left it, returns the record sequence the
\* first call returned, record for record, with the same total, and leaves
\* IDSindicators as the first call left it: the first call changes nothing
\* of what the second returns.
C11_FetchAllIdempotent ==
    [][ /\ pc = "In5" /\ pc' = "In6"
        /\ requestLog # <<>>
        /\ requestLog'[Len(requestLog')] = requestLog[Len(requestLog)]
        /\ HasRecords(indicatorsJSON)
        => /\ HasRecords(indicatorsJSON')
           /\ indicatorsJSON'.val.v[2] = indicatorsJSON.val.v[2]
           /\ indicatorsJSON'.val.v[1] = indicatorsJSON.val.v[1]
           /\ IDSindicators' = IDSindicators ]_vars

\* C11 witness: In [5] has run twice with the same request against a server
\* of 569 indicators and holds the 500 records of the first page.
C11_Witness ==
    /\ pc = "In6" /\ err = NoError
    /\ Len(requestLog) = 4 /\ requestLog[4] = requestLog[3]
    /\ Len(server.indicator.val) = ObservedTotal
    /\ Len(indicatorsJSON.val.v[2]) = IndicatorsPerPage

\* C12: a GET that fails in transport raises ConnectionError in the cell that
\* issued it, after that one attempt: the log holds one request for each
\* fetching cell up to this one and the last one is this cell's, no name of
\* the cell is bound to a response, a body or a result, nothing is printed
\* by the cell and no later cell runs.
C12_NetworkErrorAfterOneAttempt ==
    err.type = "ConnectionError" =>
        LET fetching == <<"In2", "In3", "In5", "In7", "In8">>
            resources == <<"sources", "indicator", "indicator",
                           "sources/6/country", "sources/6/counterpart-area">>
        IN  /\ \E k \in 1..5 :
                  /\ pc = fetching[k]
                  /\ Len(requestLog) = k
                  /\ requestLog[k].resource = resources[k]
                  /\ err.arg = resources[k]
            /\ pc = "In2" => sources = Unbound /\ sourcesJSON = Unbound
                              /\ LinesOf(2) = <<>>
            /\ pc = "In3" => indicators = Unbound /\ indicatorsJSON = Unbound
            /\ pc = "In5" =>
                  /\ indicatorsJSON.val.v[2] =
                        FirstPage(server.indicator.val, DefaultPerPage)
                  /\ IDSindicators = Unbound /\ indicator = Unbound
            /\ pc = "In7" =>
                  /\ dlocations = Unbound /\ dlocationsJSON = Unbound
                  /\ dlocationsList = Unbound /\ df = Unbound
                  /\ LinesOf(7) = <<>>
            /\ pc = "In8" =>
                  /\ clocations = Unbound /\ clocationsJSON = Unbound
                  /\ clocationsList = Unbound /\ df = dlocationsList
                  /\ LinesOf(8) = <<>>

\* C12 witness: the per_page=500 request failed in transport: it is the
\* third and last request of the log, and indicatorsJSON still holds the 50
\* records of In [3].
C12_Witness ==
    /\ pc = "In5" /\ err = Raise("ConnectionError", "indicator")
    /\ Len(requestLog) = 3 /\ PerPageOf(requestLog[3]) = IndicatorsPerPage
    /\ Len(indicatorsJSON.val.v[2]) = DefaultPerPage

\* C13: the total-count query (In [3] and In [4]) ends in an error, and
\* prints no total, whenever its GET fails in transport (ConnectionError at
\* In [3]), its body is not JSON (JSONDecodeError at In [3]) or its body
\* has no total at [0]["total"] (KeyError or IndexError at In [4]: an error
\* message, or an object of the nested shape, which has a total but not at
\* the position read); the run gets past In [4] only with a body whose
\* first element carries the total.
C13_TotalCountErrors ==
    /\ pc = "In3" /\ err # NoError =>
          /\ LinesOf(4) = <<>>
          /\ \/ err.type = "ConnectionError" /\ indicators = Unbound
             \/ err.type = "JSONDecodeError" /\ indicators = Bind(Response("text"))
                /\ indicatorsJSON = Unbound
    /\ pc = "In4" /\ indicators.val.v # "flat" =>
          /\ indicators.val.v \in {"nested", "message", "nosource"}
          /\ LinesOf(4) = <<>>
          /\ err # NoError =>
                /\ err.type \in {"KeyError", "IndexError"}
                /\ ~ ( /\ indicatorsJSON.val.t = "list"
                       /\ indicatorsJSON.val.v # <<>>
                       /\ "total" \in DOMAIN indicatorsJSON.val.v[1] )
    /\ pc = "In4" /\ err # NoError => indicators.val.v # "flat"
    /\ pc = "In5" /\ err = NoError =>
          /\ indicators.val.v = "flat"
          /\ Len(LinesOf(4)) = 1
          /\ LinesOf(4)[1][2] = ToString(indicatorsJSON.val.v[1].total)
    /\ LinesOf(4) # <<>> => Done("In4")

\* C13 witness: the body of the total-count query was an error message, an
\* array whose one element has no total, and In [4] raised KeyError: 'total'
\* and printed nothing.
C13_Witness ==
    /\ pc = "In4" /\ err = Raise("KeyError", "total")
    /\ indicators = Bind(Response("message"))
    /\ LinesOf(4) = <<>>

\* C14: what In [6] prints for the code is the lookup followed by the
\* extraction of the field: nothing is printed exactly when no record of
\* the result has the code; otherwise the j-th line is the value stored
\* under sourceNote in the j-th record that has the code, one line per such
\* record.  The R chunk (which() and then $sourceNote[...]) yields the same
\* values from the same records.  A cell that raised met a record with the
\* code that stores nothing under sourceNote.
C14_FindMetadataComposes ==
    /\ Done("In6") =>
          /\ (LinesOf(6) = <<>>) <=> (Matches(IndicatorCode) = {})
          /\ Len(LinesOf(6)) = Cardinality(Matches(IndicatorCode))
          /\ \A i \in Matches(IndicatorCode) :
                LET j == Cardinality({ m \in Matches(IndicatorCode) : m <= i })
                IN  LinesOf(6)[j] = <<IndicatorRecords[i].sourceNote>>
          /\ LinesOf(6) =
                [j \in 1..Len(definition(IndicatorRecords, IndicatorCode)) |->
                    <<definition(IndicatorRecords, IndicatorCode)[j]>>]
    /\ pc = "In6" /\ err # NoError =>
          /\ err = Raise("KeyError", "sourceNote")
          /\ Matches(IndicatorCode) # {}

\* C14 witness: the first record alone has the code; its sourceNote, which
\* differs from its name, is the one line printed.
C14_Witness ==
    /\ Done("In6")
    /\ Matches(IndicatorCode) = {1}
    /\ LinesOf(6) = << <<IndicatorRecords[1].sourceNote>> >>
    /\ IndicatorRecords[1].sourceNote # IndicatorRecords[1].name
    /\ Len(IndicatorRecords) > 1

\* The raw array of a body of the nested shape, as decoded.
RawVariable(js) == js.val.v.source[1].concept[1].variable

\* C15: a location cell that ran to its end holds a table with one row per
\* entry of the raw array of its body, the i-th row made of the id and the
\* value of the i-th entry; the rows it prints with head(n=10) are the
\* first min(10, length) entries in that order, numbered from 0.  The loop
\* of In [5] likewise walks the flat array to its end in order: it leaves
\* IDSindicators at the id and name of the last record.
C15_ExtractRecordsKeepsOrder ==
    /\ \A cell \in {"In7", "In8"} :
          LET table == IF cell = "In7" THEN dlocationsList ELSE clocationsList
              js == IF cell = "In7" THEN dlocationsJSON ELSE clocationsJSON
              lines == LinesOf(IF cell = "In7" THEN 7 ELSE 8)
          IN  Done(cell) =>
                LET raw == RawVariable(js) IN
                /\ Len(table.val) = Len(raw)
                /\ \A i \in 1..Len(raw) :
                      table.val[i].id = raw[i].id /\ table.val[i].value = raw[i].value
                /\ Len(lines) = 1 + Min(HeadRows, Len(raw))
                /\ \A k \in 1..Min(HeadRows, Len(raw)) :
                      lines[k + 1] = <<ToString(k - 1), raw[k].id, raw[k].value>>
    /\ Done("In5") /\ IndicatorRecords # <<>> =>
          IDSindicators =
              Bind(<<IndicatorRecords[Len(IndicatorRecords)].id,
                     IndicatorRecords[Len(IndicatorRecords)].name>>)

\* C15 witness: the debtor page holds more than ten entries, the first of
\* them Afghanistan, and In [7] printed ten rows, the row of AFG first.
C15_Witness ==
    /\ Done("In7")
    /\ Len(dlocationsList.val) > HeadRows
    /\ Len(LinesOf(7)) = 1 + HeadRows
    /\ LinesOf(7)[2] = <<"0", "AFG", "Afghanistan">>
    /\ LinesOf(7)[3][2] # "AFG"

\* C16: once the debtor table is bound, no later step changes it: the
\* creditor cell, which uses df, listLen, code and name again, leaves
\* dlocationsList, dlocations and dlocationsJSON as In [7] left them,
\* whether it ends or raises; and no cell changes the sources.
C16_DebtorResultIndependent ==
    [][ /\ dlocationsList.bound =>
              /\ dlocationsList' = dlocationsList
              /\ dlocations' = dlocations
              /\ dlocationsJSON' = dlocationsJSON
        /\ Done("In2") => sourcesJSON' = sourcesJSON ]_vars

\* C16 witness: the creditor cell has ended: df now names the creditor
\* table, of another length than the debtor table, and the debtor table
\* still holds a row for every entry of the debtor page.
C16_Witness ==
    /\ pc = "done"
    /\ clocationsList.bound /\ df = clocationsList
    /\ dlocationsList.bound /\ dlocationsList.val # <<>>
    /\ Len(clocationsList.val) # Len(dlocationsList.val)
    /\ clocationsList.val # <<>>
    /\ Len(dlocationsList.val) = Len(RawVariable(dlocationsJSON))

\* C17: when the server's catalog holds the code DT.DOD.DLXF.CD only at
\* positions after the 500th (so its total exceeds per_page), In [5] and
\* In [6] end without an error and In [6] prints nothing, exactly what they
\* do when no record of the catalog has the code: nothing the cells print
\* or raise tells the two cases apart.
C17_BeyondPageLooksAbsent ==
    Ran("In6") =>
        LET cat == server.indicator.val
            at == { i \in DOMAIN cat : "id" \in DOMAIN cat[i] /\ cat[i].id = IndicatorCode }
        IN  (\A i \in at : i > IndicatorsPerPage) =>
                /\ Done("In6")
                /\ LinesOf(6) = <<>>
                /\ Matches(IndicatorCode) = {}

\* C17 witness: the catalog has 569 records, the last of them with the code;
\* In [6] ended, printed nothing and raised nothing.
C17_Witness ==
    /\ pc = "In7" /\ err = NoError
    /\ Len(server.indicator.val) = ObservedTotal
    /\ server.indicator.val[ObservedTotal].id = IndicatorCode
    /\ LinesOf(6) = <<>>
    /\ indicatorsJSON.val.v[1].total > Len(IndicatorRecords)

\* The cell of Part 2 named cell has run to its end.
Done2(cell) ==
    LET order == <<"imports", "indicatorSelection", "locationSelection",
                   "timeSelection", "IDS", "EXD", "previewEXD", "EXDreshaped",
                   "formatNum", "EXDclean", "Region", "previewEXDclean",
                   "chart", "done">>
        at(c) == CHOOSE i \in 1..Len(order) : order[i] = c
    IN  at(pc2) > at(cell)

\* s holds pat at some position.
Contains(s, pat) ==
    \E i \in 1..Len(s) :
        i + Len(pat) - 1 <= Len(s) /\ SubSeq(s, i, i + Len(pat) - 1) = pat

\* C18 (as claimed): after the region clean-up, every region name is the
\* name get_dataframe returned with each occurrence of "(excluding high
\* income)" deleted and every other character kept, and no cleaned name
\* contains "excluding high income".
C18_OnlyParenthesisedPhraseRemoved ==
    Done2("Region") =>
        \A i \in DOMAIN EXDclean.val :
            /\ EXDclean.val[i].Region =
                  str_replace(EXD.val.index[i][1],
                              <<"(">> \o ExcludingHighIncome \o <<")">>, <<>>)
            /\ ~Contains(EXDclean.val[i].Region, ExcludingHighIncome)

\* |n|
Abs(n) == IF n < 0 THEN 0 - n ELSE n

\* C19: after the formatNum cell, the value z of every row is a whole number
\* of billions nearest to the amount x get_dataframe returned for the row:
\* z * 1,000,000,000 differs from x by at most 500,000,000 and neither
\* neighbour of z is nearer; and the order of the amounts is kept: a row
\* with a larger or equal amount has a larger or equal value.
C19_FormatNumNearestBillion ==
    Done2("formatNum") =>
        \A i \in DOMAIN EXDreshaped.val :
            LET x == EXD.val.ExternalDebtStock[i]
                z == EXDreshaped.val[i].ExternalDebtStock
                off == z * Billion - x
            IN  /\ z \in Int
                /\ Abs(off) <= Billion \div 2
                /\ Abs(off) <= Abs(off + Billion)
                /\ Abs(off) <= Abs(off - Billion)
                /\ \A j \in DOMAIN EXDreshaped.val :
                      x <= EXD.val.ExternalDebtStock[j] =>
                          z <= EXDreshaped.val[j].ExternalDebtStock

\* C19 witness: the amounts 500,000,000 and 500,000,001 became 0 and 1.
C19_Witness ==
    /\ Done2("formatNum")
    /\ EXD.val.ExternalDebtStock = <<Billion \div 2, Billion \div 2 + 1>>
    /\ EXDreshaped.val[1].ExternalDebtStock = 0
    /\ EXDreshaped.val[2].ExternalDebtStock = 1

\* C20 (as claimed): run in their written order, the cells of Part 2 reach
\* the promised state: the source-selection cell ends with IDS bound, so
\* the API-call cell finds the name it reads, and once the API-call cell
\* has ended EXD is bound to a DataFrame; no cell stops on a name an
\* earlier cell failed to bind.
C20_RunReachesEXD ==
    /\ pc2 = "IDS" => err2 = NoError
    /\ Done2("IDS") => IDS.bound
    /\ Done2("EXD") => EXD.bound
    /\ err2.type # "NameError"

====
